---------------------------- MODULE Spec2Model ----------------------------
(***************************************************************************)
(* Model of the tex-convert crate of mhw-stickers-helper: the TEX <-> DDS  *)
(* container transcoders (dds2tex.rs, tex2dds.rs) and the format registry  *)
(* and TEX header parser (spec/tex.rs).  Files are sequences of bytes      *)
(* (0..255); the two conversions are operators over such sequences that    *)
(* return a result record (Ok with the output bytes, or one of the Error   *)
(* variants of error.rs).                                                  *)
(***************************************************************************)
EXTENDS Integers, Sequences, FiniteSets, TLC

VARIABLES kind, reader, x, mid, out, pc,
          caller, files, pos, written, errors, status,
          self_info, fs, modified_collections, sticker_index, ws_status

\* one conversion call chain: the input, its conversion and the way back
convVars == <<kind, reader, x, mid, out, pc>>

\* a caller's loop over a sequence of files
batchVars == <<caller, files, pos, written, errors, status>>

\* a Workspace (its info and the files under its root_path) and one call of
\* get_modified_collections on it
wsVars == <<self_info, fs, modified_collections, sticker_index, ws_status>>

vars == <<kind, reader, x, mid, out, pc, caller, files, pos, written, errors, status,
          self_info, fs, modified_collections, sticker_index, ws_status>>

-----------------------------------------------------------------------------
(* Bounds of the model.                                                    *)

\* mip counts of the generated DDS headers range over 0..MaxMip
MaxMip == 4
\* the generated pixel payloads have lengths PayloadStep * (0..MaxPayloadSteps)
MaxPayloadSteps == 2
PayloadStep == 12
\* widths and heights 1..MaxSmallDim, plus the large ones of BigDims
MaxSmallDim == 4
\* a caller's batch holds at most MaxBatch files
MaxBatch == 2
\* a workspace info records at most MaxStickers stickers
MaxStickers == 2

-----------------------------------------------------------------------------
(* Bytes and little-endian integers (byteorder::LE).  i32 values are kept  *)
(* as integers in -2^31 .. 2^31-1.                                         *)

Zeros(n) == [i \in 1..n |-> 0]

\* write_i32::<LE>
LE32(v) ==
    LET b0 == v % 256
        v1 == (v - b0) \div 256
        b1 == v1 % 256
        v2 == (v1 - b1) \div 256
        b2 == v2 % 256
        v3 == (v2 - b2) \div 256
    IN  <<b0, b1, b2, v3 % 256>>

\* `v as i16` followed by write_i16::<LE>: the low 16 bits of v
LE16(v) ==
    LET b0 == v % 256
        v1 == (v - b0) \div 256
    IN  <<b0, v1 % 256>>

\* the i32 whose little-endian bytes are s[1..4]
I32Of(s) ==
    s[1] + 256 * s[2] + 65536 * s[3]
      + 16777216 * (IF s[4] >= 128 THEN s[4] - 256 ELSE s[4])

\* Cursor: n bytes can be read at absolute offset off
CanRead(b, off, n) == off + n <= Len(b)

\* the n bytes at absolute offset off (0-based)
BytesAt(b, off, n) == SubSeq(b, off + 1, off + n)

\* seek(SeekFrom::Start(off)) then read_i32::<LE>
I32At(b, off) == I32Of(BytesAt(b, off, 4))

\* seek(SeekFrom::Start(off)) then read_to_end: empty when off is at or past the end
ReadToEnd(b, off) == IF off >= Len(b) THEN <<>> ELSE SubSeq(b, off + 1, Len(b))

\* i32 division by 2 (Rust `/`: truncates toward zero)
Div2(v) == (v - (v % 2)) \div 2 + (IF v < 0 /\ v % 2 = 1 THEN 1 ELSE 0)

\* the range of i32
MaxI32 == 2147483647
MinI32 == -MaxI32 - 1

Abs(a) == IF a < 0 THEN -a ELSE a

\* whether the i32 product a * b leaves the range of i32
MulOverflows(a, b) ==
    IF a = 0 \/ b = 0 \/ a = 1 \/ b = 1 THEN FALSE
    ELSE IF a = MinI32 \/ b = MinI32 THEN TRUE
    ELSE IF a = -1 \/ b = -1 THEN FALSE
    ELSE IF (a > 0) = (b > 0) THEN Abs(b) > MaxI32 \div Abs(a)
    ELSE Abs(b) > MaxI32 \div Abs(a)
                    + (IF MaxI32 % Abs(a) = Abs(a) - 1 THEN 1 ELSE 0)

\* whether the i32 sum a + b leaves the range of i32
AddOverflows(a, b) ==
    \/ a > 0 /\ b > MaxI32 - a
    \/ a < 0 /\ b < MinI32 - a

\* the low four bytes of the product of the little-endian numbers p and q:
\* long multiplication, byte by byte
MulBytes(p, q) ==
    LET c0 == p[1] * q[1]
        c1 == p[1] * q[2] + p[2] * q[1] + c0 \div 256
        c2 == p[1] * q[3] + p[2] * q[2] + p[3] * q[1] + c1 \div 256
        c3 == p[1] * q[4] + p[2] * q[3] + p[3] * q[2] + p[4] * q[1]
                + c2 \div 256
    IN  <<c0 % 256, c1 % 256, c2 % 256, c3 % 256>>

\* a * b modulo 2^32 (the product of a build without overflow checks),
\* byte by byte when it leaves the range
WrapMul(a, b) ==
    IF ~MulOverflows(a, b) THEN a * b
    ELSE I32Of(MulBytes(LE32(a), LE32(b)))

\* a + b modulo 2^32
WrapAdd(a, b) ==
    IF a > 0 /\ b > MaxI32 - a THEN (a - MaxI32 - 1) + (b - MaxI32 - 1)
    ELSE IF a < 0 /\ b < MinI32 - a THEN (a + MaxI32 + 1) + (b + MaxI32 + 1)
    ELSE a + b

\* the set of the elements of a sequence
Range(s) == { s[i] : i \in 1..Len(s) }

RECURSIVE Flatten(_)
Flatten(ss) == IF ss = <<>> THEN <<>> ELSE Head(ss) \o Flatten(Tail(ss))

-----------------------------------------------------------------------------
(* error.rs: the results of a conversion.                                  *)

Ok(bytes) == [tag |-> "Ok", bytes |-> bytes, expected |-> 0, actual |-> 0]
ErrIO == [tag |-> "IO", bytes |-> <<>>, expected |-> 0, actual |-> 0]
BadMagic(e, a) == [tag |-> "BadMagic", bytes |-> <<>>, expected |-> e, actual |-> a]
UnknownTexFormat ==
    [tag |-> "UnknownTexFormat", bytes |-> <<>>, expected |-> 0, actual |-> 0]
NoResult == [tag |-> "None", bytes |-> <<>>, expected |-> 0, actual |-> 0]
\* no Result at all: the panic of an arithmetic overflow in a build with
\* overflow checks ("attempt to multiply with overflow")
Panic == [tag |-> "Panic", bytes |-> <<>>, expected |-> 0, actual |-> 0]


-----------------------------------------------------------------------------
(* spec/tex.rs: the format registry.                                       *)

\* enum TexFormat without DxgiFormatUnknown: the supported formats
SupportedFormats ==
    { "DxgiFormatR8G8B8A8Unorm", "DxgiFormatR8G8B8A8UnormSRGB",
      "DxgiFormatR8G8Unorm", "DxgiFormatBc1Unorm", "DxgiFormatBc1UnormSRGB",
      "DxgiFormatBc4Unorm", "DxgiFormatBc5Unorm", "DxgiFormatBc6hUf16",
      "DxgiFormatBc7Unorm", "DxgiFormatBc7UnormSRGB" }

\* `format as i32`: the discriminants of enum TexFormat
TexCode(f) ==
    CASE f = "DxgiFormatUnknown"           -> 0
      [] f = "DxgiFormatR8G8B8A8Unorm"     -> 7
      [] f = "DxgiFormatR8G8B8A8UnormSRGB" -> 9
      [] f = "DxgiFormatR8G8Unorm"         -> 19
      [] f = "DxgiFormatBc1Unorm"          -> 22
      [] f = "DxgiFormatBc1UnormSRGB"      -> 23
      [] f = "DxgiFormatBc4Unorm"          -> 24
      [] f = "DxgiFormatBc5Unorm"          -> 26
      [] f = "DxgiFormatBc6hUf16"          -> 28
      [] f = "DxgiFormatBc7Unorm"          -> 30
      [] f = "DxgiFormatBc7UnormSRGB"      -> 31

\* TexFormat::from_i32(code).unwrap_or(TexFormat::DxgiFormatUnknown)
TexFromI32(code) ==
    IF \E f \in SupportedFormats : TexCode(f) = code
    THEN CHOOSE f \in SupportedFormats : TexCode(f) = code
    ELSE "DxgiFormatUnknown"

\* the four-character tags as bytes
TagDX10 == <<68, 88, 49, 48>>
TagDXT1 == <<68, 88, 84, 49>>
TagBC4U == <<66, 67, 52, 85>>
TagBC5U == <<66, 67, 53, 85>>
TagBC1S == <<66, 67, 49, 83>>
TagSRGB == <<83, 82, 71, 66>>
TagUNKN == <<85, 78, 75, 78>>

\* TexFormat::magic
magic(f) ==
    CASE f = "DxgiFormatUnknown"           -> TagUNKN
      [] f = "DxgiFormatR8G8B8A8Unorm"     -> TagDX10
      [] f = "DxgiFormatR8G8B8A8UnormSRGB" -> TagDX10
      [] f = "DxgiFormatR8G8Unorm"         -> TagDX10
      [] f = "DxgiFormatBc1Unorm"          -> TagDXT1
      [] f = "DxgiFormatBc1UnormSRGB"      -> TagDX10
      [] f = "DxgiFormatBc4Unorm"          -> TagBC4U
      [] f = "DxgiFormatBc5Unorm"          -> TagBC5U
      [] f = "DxgiFormatBc6hUf16"          -> TagDX10
      [] f = "DxgiFormatBc7Unorm"          -> TagDX10
      [] f = "DxgiFormatBc7UnormSRGB"      -> TagDX10

\* from_magic with the provisional DX10 default as its catch-all arm
from_magic_DefaultBc7(t) ==
    CASE t = TagUNKN -> "DxgiFormatUnknown"
      [] t = TagSRGB -> "DxgiFormatR8G8B8A8UnormSRGB"
      [] t = TagDXT1 -> "DxgiFormatBc1Unorm"
      [] t = TagBC1S -> "DxgiFormatBc1UnormSRGB"
      [] t = TagBC4U -> "DxgiFormatBc4Unorm"
      [] t = TagBC5U -> "DxgiFormatBc5Unorm"
      [] OTHER       -> "DxgiFormatBc7Unorm"

\* TexFormat::from_magic
from_magic(t) ==
    CASE t = TagUNKN -> "DxgiFormatUnknown"
      [] t = TagSRGB -> "DxgiFormatR8G8B8A8UnormSRGB"
      [] t = TagDXT1 -> "DxgiFormatBc1Unorm"
      [] t = TagBC1S -> "DxgiFormatBc1UnormSRGB"
      [] t = TagBC4U -> "DxgiFormatBc4Unorm"
      [] t = TagBC5U -> "DxgiFormatBc5Unorm"
      [] t = TagDX10 -> "DxgiFormatBc7Unorm"
      [] OTHER       -> "DxgiFormatUnknown"

\* enum DxgiFormat (its file is not part of the sources at hand): the DXGI
\* codes of the variants named by the TryFrom impl, and two further variants
\* of the DXGI enumeration that impl rejects
DxgiCode(d) ==
    CASE d = "R8G8B8A8Unorm"     -> 28
      [] d = "R8G8B8A8UnormSrgb" -> 29
      [] d = "R8G8Unorm"         -> 49
      [] d = "Bc1Unorm"          -> 71
      [] d = "Bc1UnormSrgb"      -> 72
      [] d = "Bc4Unorm"          -> 80
      [] d = "Bc5Unorm"          -> 83
      [] d = "Bc6hUf16"          -> 95
      [] d = "Bc7Unorm"          -> 98
      [] d = "Bc7UnormSrgb"      -> 99
      [] d = "Bc2Unorm"          -> 74
      [] d = "Unknown"           -> 0

DxgiVariants ==
    { "R8G8B8A8Unorm", "R8G8B8A8UnormSrgb", "R8G8Unorm", "Bc1Unorm",
      "Bc1UnormSrgb", "Bc4Unorm", "Bc5Unorm", "Bc6hUf16", "Bc7Unorm",
      "Bc7UnormSrgb", "Bc2Unorm", "Unknown" }

\* DxgiFormat::from_i32: "None" when no variant has the code
DxgiFromI32(code) ==
    IF \E d \in DxgiVariants : DxgiCode(d) = code
    THEN CHOOSE d \in DxgiVariants : DxgiCode(d) = code
    ELSE "None"

\* impl TryFrom<DxgiFormat> for TexFormat; DxgiFormatUnknown stands for
\* Err(UnknownTexFormat)
TexOfDxgi(d) ==
    CASE d = "R8G8B8A8Unorm"     -> "DxgiFormatR8G8B8A8Unorm"
      [] d = "R8G8B8A8UnormSrgb" -> "DxgiFormatR8G8B8A8UnormSRGB"
      [] d = "R8G8Unorm"         -> "DxgiFormatR8G8Unorm"
      [] d = "Bc1Unorm"          -> "DxgiFormatBc1Unorm"
      [] d = "Bc1UnormSrgb"      -> "DxgiFormatBc1UnormSRGB"
      [] d = "Bc4Unorm"          -> "DxgiFormatBc4Unorm"
      [] d = "Bc5Unorm"          -> "DxgiFormatBc5Unorm"
      [] d = "Bc6hUf16"          -> "DxgiFormatBc6hUf16"
      [] d = "Bc7Unorm"          -> "DxgiFormatBc7Unorm"
      [] d = "Bc7UnormSrgb"      -> "DxgiFormatBc7UnormSRGB"
      [] OTHER                   -> "DxgiFormatUnknown"

\* impl TryFrom<TexFormat> for DxgiFormat, used by convert_to_dds (its file
\* is not part of the sources at hand): the variant of the same name
DxgiOfTex(f) ==
    CASE f = "DxgiFormatR8G8B8A8Unorm"     -> "R8G8B8A8Unorm"
      [] f = "DxgiFormatR8G8B8A8UnormSRGB" -> "R8G8B8A8UnormSrgb"
      [] f = "DxgiFormatR8G8Unorm"         -> "R8G8Unorm"
      [] f = "DxgiFormatBc1Unorm"          -> "Bc1Unorm"
      [] f = "DxgiFormatBc1UnormSRGB"      -> "Bc1UnormSrgb"
      [] f = "DxgiFormatBc4Unorm"          -> "Bc4Unorm"
      [] f = "DxgiFormatBc5Unorm"          -> "Bc5Unorm"
      [] f = "DxgiFormatBc6hUf16"          -> "Bc6hUf16"
      [] f = "DxgiFormatBc7Unorm"          -> "Bc7Unorm"
      [] f = "DxgiFormatBc7UnormSRGB"      -> "Bc7UnormSrgb"

-----------------------------------------------------------------------------
(* dds2tex.rs: convert_to_tex.                                             *)

DDS_MAGIC == 542327876

W_MAGIC_NUMBER_TEX ==
    <<84, 69, 88, 0, 16, 0, 0, 0, 0, 0, 0, 0, 0, 0, 0, 0, 2, 0, 0, 0>>

TEX_FIXED_UNKN ==
    <<1, 0, 0, 0, 0, 0, 0, 0, 0, 0, 0, 0, 0, 0, 0, 0,
      255, 255, 255, 255, 0, 0, 0, 0, 0, 0, 0, 0>>

TEX_OF_NEW_DDS ==
    { "DxgiFormatBc7Unorm", "DxgiFormatBc7UnormSRGB", "DxgiFormatBc6hUf16" }

TEX_WITH_4BPP ==
    { "DxgiFormatBc1Unorm", "DxgiFormatBc1UnormSRGB", "DxgiFormatBc4Unorm" }

TEX_WITH_16BPP == { "DxgiFormatR8G8Unorm" }

\* let is_raw = dds_flag & 0x8 == 0x8
IsRawFlag(dds_flag) == ((dds_flag % 16) \div 8) = 1

\* a magic check that compares the three letters "DDS" only
DdsMagicOk_ThreeBytes(m) == m % 16777216 = DDS_MAGIC % 16777216

\* the magic check of convert_to_tex
DdsMagicOk(m) == m = DDS_MAGIC

\* the tag's provisional format kept as it is, the DXGI code never read
ResolveDdsFormat_TagOnly(b) == from_magic(BytesAt(b, 84, 4))

\* the format convert_to_tex settles on, given the tag at 0x54: for the
\* provisional DxgiFormatBc7Unorm the DXGI code at 0x80 decides.  Returns a
\* TexFormat, "IO" (the code cannot be read) or DxgiFormatUnknown (the
\* caller returns UnknownTexFormat)
ResolveDdsFormat(b) ==
    LET format == from_magic(BytesAt(b, 84, 4))
    IN  IF format = "DxgiFormatUnknown" THEN "DxgiFormatUnknown"
        ELSE IF format = "DxgiFormatBc7Unorm"
        THEN IF ~CanRead(b, 128, 4) THEN "IO"
             ELSE LET dxgi_format == DxgiFromI32(I32At(b, 128))
                  IN  IF dxgi_format = "None" THEN "DxgiFormatUnknown"
                      ELSE TexOfDxgi(dxgi_format)
        ELSE format

\* where convert_to_tex starts reading the pixel payload
DdsPayloadOffset(format, is_raw) ==
    IF magic(format) = TagDX10 /\ ~is_raw THEN 148 ELSE 128

\* the flag written after TEX_FIXED_UNKN
NewDdsFlag(format) == IF format \in TEX_OF_NEW_DDS THEN 1 ELSE 0

\* the first 16-bit field of each of the three repeated groups
GroupWidth(format, is_raw, width) ==
    IF is_raw \/ format = "DxgiFormatR8G8Unorm" THEN width ELSE Div2(width)

\* the level size with the raw branch tested first
LevelSize_RawFirst(format, is_raw, cur_width, cur_height) ==
    IF is_raw THEN WrapMul(WrapMul(cur_width, cur_height), 4)
    ELSE IF format \in TEX_WITH_4BPP THEN Div2(WrapMul(cur_width, cur_height))
    ELSE IF format \in TEX_WITH_16BPP THEN WrapMul(WrapMul(cur_width, cur_height), 2)
    ELSE WrapMul(cur_width, cur_height)

\* the level size computed in bits first: pixels * bits per pixel / 8
LevelSize_BitsFirst(format, is_raw, cur_width, cur_height) ==
    LET pixels == WrapMul(cur_width, cur_height)
        bits == IF format \in TEX_WITH_4BPP THEN 4
                ELSE IF format \in TEX_WITH_16BPP THEN 16
                ELSE IF is_raw THEN 32
                ELSE 8
        total == WrapMul(pixels, bits)
    IN  (total - (total % 8)) \div 8 + (IF total < 0 /\ total % 8 # 0 THEN 1 ELSE 0)

\* the amount added to base_loc for one mip level
LevelSize(format, is_raw, cur_width, cur_height) ==
    IF format \in TEX_WITH_4BPP THEN Div2(WrapMul(cur_width, cur_height))
    ELSE IF format \in TEX_WITH_16BPP THEN WrapMul(WrapMul(cur_width, cur_height), 2)
    ELSE IF is_raw THEN WrapMul(WrapMul(cur_width, cur_height), 4)
    ELSE WrapMul(cur_width, cur_height)

\* whether `base_loc += ...` of one iteration overflows: in a product or in
\* the sum
LevelOverflows(format, is_raw, cur_width, cur_height, base_loc) ==
    \/ MulOverflows(cur_width, cur_height)
    \/ /\ format \in TEX_WITH_16BPP
       /\ MulOverflows(WrapMul(cur_width, cur_height), 2)
    \/ /\ format \notin TEX_WITH_4BPP \cup TEX_WITH_16BPP /\ is_raw
       /\ MulOverflows(WrapMul(cur_width, cur_height), 4)
    \/ AddOverflows(base_loc, LevelSize(format, is_raw, cur_width, cur_height))

\* the halving without the clamp
NextDim_NoClamp(cur, is_raw) == Div2(cur)

\* cur_width /= 2; cur_width = i32::max(cur_width, max_width)
NextDim(cur, is_raw) ==
    LET max_width == IF is_raw THEN 2 ELSE 4
        half == Div2(cur)
    IN  IF half >= max_width THEN half ELSE max_width

\* the mip loop: the (cur_width, cur_height, base_loc) of each iteration
RECURSIVE MipLoop(_, _, _, _, _, _)
MipLoop(n, cur_width, cur_height, base_loc, format, is_raw) ==
    IF n <= 0 THEN <<>>
    ELSE <<[width |-> cur_width, height |-> cur_height, base_loc |-> base_loc]>>
         \o MipLoop(n - 1, NextDim(cur_width, is_raw), NextDim(cur_height, is_raw),
                    WrapAdd(base_loc, LevelSize(format, is_raw, cur_width, cur_height)),
                    format, is_raw)

\* let mut base_loc: i32 = 0xb8 + mipmap_count * 8 and the loop over it
MipLevels(width, height, mipmap_count, format, is_raw) ==
    MipLoop(mipmap_count, width, height, WrapAdd(184, WrapMul(mipmap_count, 8)),
            format, is_raw)

\* whether the arithmetic of the mip table overflows: 0xb8 + mipmap_count * 8
\* or an iteration of the loop
MipOverflows(width, height, mipmap_count, format, is_raw) ==
    \/ MulOverflows(mipmap_count, 8)
    \/ AddOverflows(184, WrapMul(mipmap_count, 8))
    \/ \E level \in Range(MipLevels(width, height, mipmap_count, format, is_raw)) :
           LevelOverflows(format, is_raw, level.width, level.height, level.base_loc)

\* the bytes the loop writes: base_loc and a zero per level
MipTableBytes(levels) ==
    Flatten([i \in 1..Len(levels) |-> LE32(levels[i].base_loc) \o LE32(0)])

\* the three repeated groups
WidthGroups(format, is_raw, width) ==
    LET g == LE16(GroupWidth(format, is_raw, width)) \o LE16(width) \o Zeros(8)
    IN  g \o g \o g

\* everything convert_to_tex writes before the mip table (0xB8 bytes)
TexHeaderBytes(mipmap_count, width, height, format, is_raw) ==
    W_MAGIC_NUMBER_TEX
      \o LE32(mipmap_count) \o LE32(width) \o LE32(height) \o LE32(1)
      \o LE32(TexCode(format))
      \o TEX_FIXED_UNKN
      \o LE32(NewDdsFlag(format))
      \o Zeros(16)
      \o Flatten([i \in 1..8 |-> LE32(-1)])
      \o LE32(width)
      \o WidthGroups(format, is_raw, width)
      \o Zeros(24)

convert_to_tex(b) ==
    IF ~CanRead(b, 0, 4) THEN ErrIO
    ELSE IF ~DdsMagicOk(I32At(b, 0)) THEN BadMagic(DDS_MAGIC, I32At(b, 0))
    ELSE IF ~CanRead(b, 8, 12) THEN ErrIO
    ELSE IF ~CanRead(b, 28, 4) THEN ErrIO
    ELSE IF ~CanRead(b, 84, 4) THEN ErrIO
    ELSE
      LET is_raw == IsRawFlag(I32At(b, 8))
          height == I32At(b, 12)
          width == I32At(b, 16)
          mipmap_count == I32At(b, 28)
          format == ResolveDdsFormat(b)
      IN  IF format = "IO" THEN ErrIO
          ELSE IF format = "DxgiFormatUnknown" THEN UnknownTexFormat
          ELSE
            LET data == ReadToEnd(b, DdsPayloadOffset(format, is_raw))
            IN  Ok(TexHeaderBytes(mipmap_count, width, height, format, is_raw)
                     \o MipTableBytes(MipLevels(width, height, mipmap_count,
                                                format, is_raw))
                     \o data)

\* whether the arithmetic convert_to_tex does on input b overflows (it does
\* none before the payload has been read)
TexArithmeticOverflows(b) ==
    /\ CanRead(b, 0, 4) /\ DdsMagicOk(I32At(b, 0))
    /\ CanRead(b, 8, 12) /\ CanRead(b, 28, 4) /\ CanRead(b, 84, 4)
    /\ ResolveDdsFormat(b) \in SupportedFormats
    /\ MipOverflows(I32At(b, 16), I32At(b, 12), I32At(b, 28), ResolveDdsFormat(b),
                    IsRawFlag(I32At(b, 8)))

\* convert_to_tex as a build with (debug) or without (release) overflow
\* checks runs it: an overflow panics in the first and wraps in the second
convert_to_tex_build(b, overflow_checks) ==
    IF ~overflow_checks THEN convert_to_tex(b)
    ELSE IF TexArithmeticOverflows(b) THEN Panic
    ELSE convert_to_tex(b)

-----------------------------------------------------------------------------
(* spec/tex.rs: TexInfo::from_reader.                                      *)

TEX_MAGIC == 5784916

\* the magic check of TexInfo::from_reader
TexMagicOk(m) == m = TEX_MAGIC

\* read_i64::<LE> at 0xB8, as the position seek(SeekFrom::Start(offset as
\* u64)) is asked for: the low word when the value is in 0 .. 2^31-1, and
\* past the end of any input otherwise (far); neg when the i64 is negative
\* (as u64 it is 2^63 or more)
I64At(b, off) ==
    LET lo == I32At(b, off)
        hi == I32At(b, off + 4)
    IN  IF hi = 0 /\ lo >= 0 THEN [far |-> FALSE, neg |-> FALSE, pos |-> lo]
        ELSE [far |-> TRUE, neg |-> hi < 0, pos |-> 0]

\* Ok(TexInfo {..}) carries tag "Ok" and the fields; an error is one of the
\* results of error.rs
from_reader(b) ==
    IF ~CanRead(b, 0, 4) THEN ErrIO
    ELSE IF ~TexMagicOk(I32At(b, 0)) THEN BadMagic(TEX_MAGIC, I32At(b, 0))
    ELSE IF ~CanRead(b, 20, 12) THEN ErrIO
    ELSE IF ~CanRead(b, 36, 4) THEN ErrIO
    ELSE IF TexFromI32(I32At(b, 36)) = "DxgiFormatUnknown" THEN UnknownTexFormat
    ELSE IF ~CanRead(b, 184, 8) THEN ErrIO
    ELSE [tag |-> "Ok",
          magic |-> I32At(b, 0),
          mip_map_count |-> I32At(b, 20),
          width |-> I32At(b, 24),
          height |-> I32At(b, 28),
          format |-> TexFromI32(I32At(b, 36)),
          offset |-> I64At(b, 184)]

-----------------------------------------------------------------------------
(* tex2dds.rs: convert_to_dds.                                             *)

W_MAGIC_NUMBER_DDS == <<68, 68, 83, 32, 124, 0, 0, 0, 7, 16, 10, 0>>

COMPRESS_OPTION == <<8, 16, 64, 0>>

DX10_FIXED_FLAGS == <<3, 0, 0, 0, 0, 0, 0, 0, 1, 0, 0, 0, 0, 0, 0, 0>>

\* the linear-size field written after the width
LinearSize(format, width, height) ==
    IF format \in TEX_WITH_4BPP THEN Div2(WrapMul(width, height))
    ELSE IF format \in TEX_WITH_16BPP THEN WrapMul(WrapMul(width, height), 2)
    ELSE WrapMul(width, height)

\* whether computing the linear-size field overflows
LinearSizeOverflows(format, width, height) ==
    \/ MulOverflows(width, height)
    \/ format \in TEX_WITH_16BPP /\ MulOverflows(WrapMul(width, height), 2)

\* the extension written for the BC6H/BC7 formats only
WritesDx10_NewDdsOnly(format) == format \in TEX_OF_NEW_DDS

\* if info.format.magic() == b"DX10"
WritesDx10(format) == magic(format) = TagDX10

\* the DX10 extension, when written
Dx10Bytes(format) ==
    IF WritesDx10(format)
    THEN LE32(DxgiCode(DxgiOfTex(format))) \o DX10_FIXED_FLAGS
    ELSE <<>>

\* the 0x80 bytes written before the DX10 extension
DdsHeaderBytes(info) ==
    W_MAGIC_NUMBER_DDS
      \o LE32(info.height) \o LE32(info.width)
      \o LE32(LinearSize(info.format, info.width, info.height))
      \o LE32(1)
      \o LE32(info.mip_map_count)
      \o Zeros(44)
      \o LE32(32) \o LE32(4)
      \o magic(info.format)
      \o Zeros(20)
      \o COMPRESS_OPTION
      \o Zeros(16)

\* seek(SeekFrom::Start(info.offset as u64)): a Cursor takes any position; a
\* File (behind a BufReader) fails for a position of 2^63 or more
SeekFails(rd, offset) == rd = "file" /\ offset.neg

\* read_to_end after the seek: nothing when the position is past the end
TexPayload(b, offset) == IF offset.far THEN <<>> ELSE ReadToEnd(b, offset.pos)

\* rd is the kind of reader the input is behind: "cursor" (io::Cursor) or
\* "file" (BufReader<File>)
convert_to_dds(b, rd) ==
    LET info == from_reader(b)
    IN  IF info.tag # "Ok" THEN info
        ELSE IF SeekFails(rd, info.offset) THEN ErrIO
        ELSE Ok(DdsHeaderBytes(info) \o Dx10Bytes(info.format)
                  \o TexPayload(b, info.offset))

\* whether the arithmetic convert_to_dds does on input b overflows
DdsArithmeticOverflows(b, rd) ==
    LET info == from_reader(b)
    IN  /\ info.tag = "Ok"
        /\ ~SeekFails(rd, info.offset)
        /\ LinearSizeOverflows(info.format, info.width, info.height)

\* convert_to_dds as a build with or without overflow checks runs it
convert_to_dds_build(b, rd, overflow_checks) ==
    IF ~overflow_checks THEN convert_to_dds(b, rd)
    ELSE IF DdsArithmeticOverflows(b, rd) THEN Panic
    ELSE convert_to_dds(b, rd)

-----------------------------------------------------------------------------
(* The input files.  A DDS file is laid out as tex2dds.rs lays one out     *)
(* (magic, header size 0x7C, flags, height, width, linear size, depth,     *)
(* mip count, the pixel-format block with the tag at 0x54, then the        *)
(* optional DX10 extension and the payload), with every field the          *)
(* converters read a parameter.                                            *)

\* DDS flags words: as convert_to_dds writes them, and with DDSD_PITCH (0x8,
\* uncompressed data) instead of DDSD_LINEARSIZE
FlagsCompressed == 659463
FlagsRaw == 135183

Payload(k) == [i \in 1..(k * PayloadStep) |-> (i * 37 + 11) % 256]

Payloads == { Payload(k) : k \in 0..MaxPayloadSteps }

BigDims == {8, 128, 16384}

Dims == (1..MaxSmallDim) \cup BigDims

\* a DX10 extension carrying DXGI code c
ExtOf(c) == LE32(c) \o DX10_FIXED_FLAGS

DdsFile(m, flags, height, width, pitch, mip, tag, ext, payload) ==
    LE32(m) \o LE32(124) \o LE32(flags)
      \o LE32(height) \o LE32(width) \o LE32(pitch) \o LE32(1) \o LE32(mip)
      \o Zeros(44)
      \o LE32(32) \o LE32(4) \o tag \o Zeros(20)
      \o COMPRESS_OPTION \o Zeros(16)
      \o ext \o payload

\* tag, extension and pixel format of the DDS headers generated:
\* as convert_to_dds writes each format
NativeHeads ==
    { [tag |-> magic(f), ext |-> Dx10Bytes(f), fmt |-> f] : f \in SupportedFormats }

\* a DX10 header naming a format that also has a legacy tag
Dx10Heads ==
    { [tag |-> TagDX10, ext |-> ExtOf(DxgiCode(DxgiOfTex(f))), fmt |-> f] :
        f \in { "DxgiFormatBc1Unorm", "DxgiFormatBc4Unorm", "DxgiFormatBc5Unorm" } }

\* the legacy tags from_magic knows and magic never writes
LegacyHeads ==
    { [tag |-> TagSRGB, ext |-> <<>>, fmt |-> "DxgiFormatR8G8B8A8UnormSRGB"],
      [tag |-> TagBC1S, ext |-> <<>>, fmt |-> "DxgiFormatBc1UnormSRGB"] }

\* tags and DXGI codes outside the registry
UnknownHeads ==
    { [tag |-> TagUNKN, ext |-> <<>>, fmt |-> "DxgiFormatUnknown"],
      [tag |-> <<65, 66, 67, 68>>, ext |-> <<>>, fmt |-> "DxgiFormatUnknown"],
      [tag |-> Zeros(4), ext |-> <<>>, fmt |-> "DxgiFormatUnknown"] }
    \cup { [tag |-> TagDX10, ext |-> ExtOf(c), fmt |-> "DxgiFormatUnknown"] :
             c \in {0, 74, 1000, -1} }

Heads == NativeHeads \cup Dx10Heads \cup LegacyHeads \cup UnknownHeads

HeadFile(m, flags, height, width, mip, hd, payload) ==
    DdsFile(m, flags, height, width,
            IF hd.fmt = "DxgiFormatUnknown" THEN WrapMul(width, height)
            ELSE LinearSize(hd.fmt, width, height),
            mip, hd.tag, hd.ext, payload)

\* every head, raw and not, with every payload
DdsFormatFamily ==
    { HeadFile(DDS_MAGIC, fl, 8, 16, 1, hd, pl) :
        fl \in {FlagsCompressed, FlagsRaw}, hd \in Heads, pl \in Payloads }

\* every supported format, raw and not, over the dimensions and mip counts
DdsMipFamily ==
    { HeadFile(DDS_MAGIC, fl, d[1], d[2], mip, hd, Payload(1)) :
        fl \in {FlagsCompressed, FlagsRaw}, d \in Dims \X Dims,
        mip \in 0..MaxMip, hd \in NativeHeads }

\* mip counts a mip chain cannot have: negative ones, and one larger than
\* the input is long
DdsMipCountFamily ==
    { HeadFile(DDS_MAGIC, fl, 4, 4, mip, hd, pl) :
        fl \in {FlagsCompressed, FlagsRaw}, mip \in {-1, -30, 40},
        hd \in { h \in NativeHeads :
                   h.fmt \in {"DxgiFormatBc1Unorm", "DxgiFormatBc7Unorm"} },
        pl \in {Payload(0), Payload(1)} }

\* the largest realistic textures: up to 16384 x 16384 with 15 mip levels,
\* every format, raw and not
DdsRealisticFamily ==
    { HeadFile(DDS_MAGIC, fl, d[1], d[2], mip, hd, Payload(0)) :
        fl \in {FlagsCompressed, FlagsRaw}, d \in {1, 16383, 16384} \X {1, 16383, 16384},
        mip \in {1, 15}, hd \in NativeHeads }

\* dimensions beyond them, whose level sizes leave the range of i32
DdsOverflowFamily ==
    { HeadFile(DDS_MAGIC, fl, d[1], d[2], mip, hd, Payload(0)) :
        fl \in {FlagsCompressed, FlagsRaw},
        d \in { <<32768, 32768>>, <<32768, 65536>>, <<65536, 65536>> },
        mip \in {1, 2},
        hd \in { h \in NativeHeads :
                   h.fmt \in {"DxgiFormatBc1Unorm", "DxgiFormatR8G8Unorm",
                              "DxgiFormatR8G8B8A8Unorm"} } }

BadMagics == {0, -1, TEX_MAGIC, DDS_MAGIC, DDS_MAGIC + 1, DDS_MAGIC + 16777216}

\* wrong signatures in front of any head
DdsMagicFamily ==
    { HeadFile(m, FlagsCompressed, 4, 4, 1, hd, Payload(1)) :
        m \in BadMagics \ {DDS_MAGIC}, hd \in Heads }

\* lengths at which inputs are cut
CutLengths == {0, 3, 4, 19, 20, 31, 32, 39, 40, 87, 88, 128, 131, 132, 147, 148,
               184, 191, 192}

Cut(b, n) == IF n >= Len(b) THEN b ELSE SubSeq(b, 1, n)

\* files that end early, with a right and with a wrong signature
DdsCutFamily ==
    { Cut(HeadFile(m, FlagsCompressed, 4, 4, 1, hd, Payload(1)), n) :
        m \in {DDS_MAGIC, 0}, hd \in Heads, n \in CutLengths }

DdsInputs ==
    DdsFormatFamily \cup DdsMipFamily \cup DdsMagicFamily \cup DdsCutFamily
      \cup DdsMipCountFamily \cup DdsRealisticFamily \cup DdsOverflowFamily

\* b with the bytes at offset off replaced by s
Patch(b, off, s) ==
    [i \in 1..Len(b) |-> IF i > off /\ i <= off + Len(s) THEN s[i - off] ELSE b[i]]

\* the TEX files convert_to_tex produces from the DDS files above
OkBytes(results) == { r.bytes : r \in { t \in results : t.tag = "Ok" } }

TexProduced ==
    OkBytes({ convert_to_tex(d) : d \in DdsFormatFamily \cup DdsMipFamily })

TexBase == OkBytes({ convert_to_tex(d) : d \in DdsFormatFamily })

\* format codes outside the registry at 0x24
TexCodeFamily == { Patch(t, 36, LE32(c)) : t \in TexBase, c \in {0, 8, 999, -1} }

TexMagicFamily ==
    { Patch(t, 0, LE32(m)) : t \in TexCodeFamily \cup TexBase,
                              m \in {0, -1, DDS_MAGIC, TEX_MAGIC + 16777216} }

\* other values of the 64-bit payload offset at 0xB8
TexOffsetFamily ==
    { Patch(t, 184, LE32(o[1]) \o LE32(o[2])) :
        t \in TexBase, o \in {<<0, 0>>, <<184, 0>>, <<200, 0>>, <<4096, 0>>,
                              <<192, 1>>, <<-1, -1>>} }

TexCutFamily ==
    { Cut(Patch(t, 0, LE32(m)), n) :
        t \in TexBase, m \in {TEX_MAGIC, 0}, n \in CutLengths }

\* files that end inside their mip table (3 entries, 0xB8 .. 0xCF)
TexTableCutFamily ==
    { Cut(t, n) :
        t \in OkBytes({ convert_to_tex(HeadFile(DDS_MAGIC, FlagsCompressed, 8, 16, 3,
                                                 hd, Payload(1))) :
                           hd \in NativeHeads }),
        n \in {191, 192, 200, 207, 208} }

\* other values of the mip count, width and height fields at 0x14
TexFieldFamily ==
    { Patch(t, 20, LE32(f[1]) \o LE32(f[2]) \o LE32(f[3])) :
        t \in OkBytes({ convert_to_tex(HeadFile(DDS_MAGIC, FlagsCompressed, 8, 16, 1,
                                                 hd, Payload(1))) :
                           hd \in NativeHeads }),
        f \in { <<0, 16, 8>>, <<-1, 16, 8>>, <<1, 0, 8>>, <<1, 16, 0>>,
                <<1, -16, 8>>, <<1, 16, -8>>, <<2, 16, 8>>, <<1, 65536, 65536>> } }

TexInputs ==
    TexProduced \cup TexCodeFamily \cup TexMagicFamily \cup TexOffsetFamily
      \cup TexCutFamily \cup TexTableCutFamily \cup TexFieldFamily

-----------------------------------------------------------------------------
(* The state machine: an input file of one kind is converted to the other  *)
(* container, and a successful result is converted back.                   *)

\* Every caller of convert_to_tex reads from a Cursor; convert_to_dds is
\* called on a Cursor (Workspace::extract_stickers) and on a BufReader<File>
\* (extract-stickers), which differ only for a payload offset of 2^63 or more.
Init ==
    /\ \/ kind = "dds" /\ reader = "cursor" /\ x \in DdsInputs
       \/ kind = "tex" /\ reader = "cursor" /\ x \in TexInputs
       \/ kind = "tex" /\ reader = "file" /\ x \in TexOffsetFamily
    /\ mid = NoResult
    /\ out = NoResult
    /\ pc = "input"
    /\ caller = "none" /\ files = <<>> /\ pos = 0
    /\ written = <<>> /\ errors = <<>> /\ status = "idle"
    /\ self_info = [version |-> 1, stickers |-> <<>>] /\ fs = <<>>
    /\ modified_collections = <<>> /\ sticker_index = 0 /\ ws_status = "idle"

\* dds2tex::convert_to_tex on the input
DdsToTex ==
    /\ pc = "input" /\ kind = "dds"
    /\ \E overflow_checks \in BOOLEAN :
           mid' = convert_to_tex_build(x, overflow_checks)
    /\ pc' = "converted"
    /\ UNCHANGED <<kind, reader, x, out>>
    /\ UNCHANGED batchVars
    /\ UNCHANGED wsVars

\* tex2dds::convert_to_dds on the input
TexToDds ==
    /\ pc = "input" /\ kind = "tex"
    /\ \E overflow_checks \in BOOLEAN :
           mid' = convert_to_dds_build(x, reader, overflow_checks)
    /\ pc' = "converted"
    /\ UNCHANGED <<kind, reader, x, out>>
    /\ UNCHANGED batchVars
    /\ UNCHANGED wsVars

\* tex2dds::convert_to_dds on the TEX just produced
BackToDds ==
    /\ pc = "converted" /\ kind = "dds" /\ mid.tag = "Ok"
    /\ \E overflow_checks \in BOOLEAN :
           out' = convert_to_dds_build(mid.bytes, reader, overflow_checks)
    /\ pc' = "back"
    /\ UNCHANGED <<kind, reader, x, mid>>
    /\ UNCHANGED batchVars
    /\ UNCHANGED wsVars

\* dds2tex::convert_to_tex on the DDS just produced
BackToTex ==
    /\ pc = "converted" /\ kind = "tex" /\ mid.tag = "Ok"
    /\ \E overflow_checks \in BOOLEAN :
           out' = convert_to_tex_build(mid.bytes, overflow_checks)
    /\ pc' = "back"
    /\ UNCHANGED <<kind, reader, x, mid>>
    /\ UNCHANGED batchVars
    /\ UNCHANGED wsVars

Next == DdsToTex \/ TexToDds \/ BackToDds \/ BackToTex

Spec == Init /\ [][Next]_vars

-----------------------------------------------------------------------------
(* The callers that convert a sequence of files:                           *)
(* App::package_modified_stickers (main.rs), Workspace::extract_stickers   *)
(* (workspace.rs) and main of extract-stickers.  A file is a record: its   *)
(* extension, its bytes (dds and tex), the dimensions and colour type of    *)
(* the decoded picture (png), and whether the external DDS decoder accepts *)
(* the converted file (tex).                                               *)

File(ext, data, width, height, color, decodable) ==
    [ext |-> ext, data |-> data, width |-> width, height |-> height,
     color |-> color, decodable |-> decodable]

\* anyhow errors of the callers
SizeError == [tag |-> "SizeError", bytes |-> <<>>, expected |-> 0, actual |-> 0]
ColorError == [tag |-> "ColorError", bytes |-> <<>>, expected |-> 0, actual |-> 0]
ExtensionError == [tag |-> "ExtensionError", bytes |-> <<>>, expected |-> 0, actual |-> 0]
\* Error::Dds / Error::CreateImageFromDds of the external decoder
DecodeError == [tag |-> "DecodeError", bytes |-> <<>>, expected |-> 0, actual |-> 0]

\* lib.rs convert_image_to_dds: the external encoder's DDS for a picture, a
\* DX10 header naming BC7-unorm-sRGB with one mip; the encoded blocks are
\* opaque and stand as one payload step
convert_image_to_dds(width, height) ==
    HeadFile(DDS_MAGIC, FlagsCompressed, height, width, 1,
             [tag |-> TagDX10, ext |-> ExtOf(99), fmt |-> "DxgiFormatBc7UnormSRGB"],
             Payload(1))

\* lib.rs convert_image_to_tex
convert_image_to_tex(width, height) == convert_to_tex(convert_image_to_dds(width, height))

\* the size test of convert_png_sticker_to_tex
PngSizeRejected(width, height) == width # 128 /\ height # 512

\* App::convert_png_sticker_to_tex
convert_png_sticker_to_tex(f) ==
    IF PngSizeRejected(f.width, f.height) THEN SizeError
    ELSE IF f.color # "Rgba8" THEN ColorError
    ELSE convert_image_to_tex(f.width, f.height)

\* App::convert_dds_sticker_to_tex
convert_dds_sticker_to_tex(f) == convert_to_tex(f.data)

\* the match on the extension in package_modified_stickers
StickerToTex(f) ==
    CASE f.ext = "dds" -> convert_dds_sticker_to_tex(f)
      [] f.ext = "png" -> convert_png_sticker_to_tex(f)
      [] OTHER         -> ExtensionError

\* lib.rs load_tex_image behind reader rd: convert_to_dds, then the external
\* decoder on its output
load_tex_image(f, rd) ==
    LET dds_data == convert_to_dds(f.data, rd)
    IN  IF dds_data.tag # "Ok" THEN dds_data
        ELSE IF ~f.decodable THEN DecodeError
        ELSE dds_data

\* the reader each caller wraps a file in: BufReader<File> in main of
\* extract-stickers, a Cursor elsewhere
ReaderOf(c) == IF c = "extract_main" THEN "file" ELSE "cursor"

\* the modified stickers a workspace may hold
StickerFiles ==
    { File("dds", d, 0, 0, "", TRUE) :
        d \in { HeadFile(m, FlagsCompressed, 4, 4, 1, hd, Payload(1)) :
                  m \in {DDS_MAGIC, 0},
                  hd \in { h \in Heads : h.tag \in {TagDXT1, TagUNKN} } } }
    \cup { File("png", <<>>, d[1], d[2], "Rgba8", TRUE) :
             d \in {64, 128} \X {256, 512} }
    \cup { File("png", <<>>, 128, 512, "Rgb8", TRUE), File("png", <<>>, 64, 64, "Rgb8", TRUE),
           File("txt", <<>>, 0, 0, "", TRUE) }

\* a TEX asset: what convert_to_tex writes for a 16 x 8 BC1 surface
AssetTex ==
    convert_to_tex(HeadFile(DDS_MAGIC, FlagsCompressed, 8, 16, 1,
                            [tag |-> TagDXT1, ext |-> <<>>, fmt |-> "DxgiFormatBc1Unorm"],
                            Payload(1))).bytes

\* the .tex assets an extracting caller may find: sound, with a wrong
\* signature, with an unknown format code, with a negative payload offset
AssetFiles ==
    { File("tex", t, 0, 0, "", dec) :
        t \in { AssetTex, Patch(AssetTex, 0, LE32(0)), Patch(AssetTex, 36, LE32(999)),
                Patch(AssetTex, 184, LE32(-1) \o LE32(-1)) },
        dec \in BOOLEAN }

FilesOf(c) == IF c = "package_modified_stickers" THEN StickerFiles ELSE AssetFiles

Batches(S) == UNION { [1..n -> S] : n \in 0..MaxBatch }

BatchInit ==
    /\ caller \in {"package_modified_stickers", "extract_stickers", "extract_main"}
    /\ kind = "none" /\ reader = ReaderOf(caller) /\ x = <<>>
    /\ mid = NoResult /\ out = NoResult /\ pc = "idle"
    /\ files \in Batches(FilesOf(caller))
    /\ pos = 0
    /\ written = <<>> /\ errors = <<>> /\ status = "running"
    /\ self_info = [version |-> 1, stickers |-> <<>>] /\ fs = <<>>
    /\ modified_collections = <<>> /\ sticker_index = 0 /\ ws_status = "idle"

\* one iteration of the loop of package_modified_stickers: the sticker is
\* converted, written as <name>.tex and added to the zip archive; an error
\* leaves the function through `?`
PackageStep ==
    /\ caller = "package_modified_stickers" /\ status = "running"
    /\ pos < Len(files)
    /\ LET tex_data == StickerToTex(files[pos + 1])
       IN  IF tex_data.tag = "Ok"
           THEN /\ written' = written \o
                      << [file |-> pos + 1, part |-> "tex", bytes |-> tex_data.bytes],
                         [file |-> pos + 1, part |-> "zip", bytes |-> tex_data.bytes] >>
                /\ UNCHANGED <<errors, status>>
           ELSE /\ errors' = Append(errors, [file |-> pos + 1, error |-> tex_data.tag])
                /\ status' = "failed"
                /\ UNCHANGED written
    /\ pos' = pos + 1
    /\ UNCHANGED <<caller, files>>
    /\ UNCHANGED convVars
    /\ UNCHANGED wsVars

\* one iteration of the loop of Workspace::extract_stickers and of main of
\* extract-stickers: the asset is loaded and its five tiles are written; an
\* error leaves the function through `?`
ExtractStep ==
    /\ caller \in {"extract_stickers", "extract_main"} /\ status = "running"
    /\ pos < Len(files)
    /\ LET img == load_tex_image(files[pos + 1], reader)
       IN  IF img.tag = "Ok"
           THEN /\ written' = written \o
                      [row_index \in 1..5 |->
                          [file |-> pos + 1, part |-> "png", bytes |-> <<row_index - 1>>]]
                /\ UNCHANGED <<errors, status>>
           ELSE /\ errors' = Append(errors, [file |-> pos + 1, error |-> img.tag])
                /\ status' = "failed"
                /\ UNCHANGED written
    /\ pos' = pos + 1
    /\ UNCHANGED <<caller, files>>
    /\ UNCHANGED convVars
    /\ UNCHANGED wsVars

\* the loop is over: Ok(())
BatchReturn ==
    /\ caller # "none" /\ status = "running"
    /\ pos = Len(files)
    /\ status' = "finished"
    /\ UNCHANGED <<caller, files, pos, written, errors>>
    /\ UNCHANGED convVars
    /\ UNCHANGED wsVars

BatchNext == PackageStep \/ ExtractStep \/ BatchReturn

BatchSpec == BatchInit /\ [][BatchNext]_vars

-----------------------------------------------------------------------------
(* workspace.rs: Workspace::get_modified_collections.  A workspace is its  *)
(* info (the recorded stickers) and the files under its root_path; a file  *)
(* is missing, or exists and cannot be opened, or opens and cannot be      *)
(* read, or holds data.                                                    *)

\* struct StickerInfo
StickerInfo(collection, id, name, checksum_sha256) ==
    [collection |-> collection, id |-> id, name |-> name,
     checksum_sha256 |-> checksum_sha256]

\* the contents of two different pictures
PngA == <<137, 80, 78, 71>>
PngB == <<137, 80, 78, 72>>

\* SHA-256 of PngA and of PngB
Sha256OfPngA ==
    <<15, 70, 54, 199, 143, 101, 211, 99, 158, 206, 90, 6, 75, 90, 231, 83,
      227, 64, 134, 20, 161, 79, 177, 138, 180, 215, 84, 13, 44, 36, 133, 67>>
Sha256OfPngB ==
    <<115, 229, 255, 178, 244, 89, 239, 12, 21, 111, 178, 70, 117, 65, 112, 207,
      32, 116, 159, 237, 24, 79, 211, 3, 30, 60, 39, 49, 187, 226, 241, 188>>

\* ring::digest SHA256 over the contents of the model
Sha256(data) ==
    CASE data = PngA -> Sha256OfPngA
      [] data = PngB -> Sha256OfPngB

\* the file a path names: Path::exists, File::open, Read::read
FileState(exists, openable, readable, data) ==
    [exists |-> exists, openable |-> openable, readable |-> readable, data |-> data]

Missing == FileState(FALSE, FALSE, FALSE, <<>>)
Unopenable == FileState(TRUE, FALSE, FALSE, <<>>)
Unreadable == FileState(TRUE, TRUE, FALSE, <<>>)
Holding(data) == FileState(TRUE, TRUE, TRUE, data)

FileStates == {Missing, Unopenable, Unreadable, Holding(PngA), Holding(PngB)}

\* util::sha256_digest: the digest of everything the reader yields, or the
\* error of a failing read
sha256_digest(file) ==
    IF ~file.readable THEN [tag |-> "Err", digest |-> <<>>]
    ELSE [tag |-> "Ok", digest |-> Sha256(file.data)]

\* impl PartialEq<Digest> for HashString, negated
ChecksumDiffers(checksum_sha256, digest) == checksum_sha256 # digest

\* the stickers parse_sticker_info records: <stem>_<id>.png is sticker id of
\* collection stem
StickerNames == {"a_0.png", "a_1.png", "b_0.png"}

RecordedStickers ==
    { StickerInfo(t[1], t[2], t[3], h) :
        t \in {<<"a", 0, "a_0.png">>, <<"a", 1, "a_1.png">>, <<"b", 0, "b_0.png">>},
        h \in {Sha256OfPngA, Sha256OfPngB} }

\* struct WorkspaceInfo, as extract_stickers builds it or workspace.json holds it
WorkspaceInfos ==
    { [version |-> 1, stickers |-> ss] :
        ss \in UNION { [1..n -> RecordedStickers] : n \in 0..MaxStickers } }

\* the files under root_path
FileSystems == [StickerNames -> FileStates]

\* get_collection keeping the first match only
RECURSIVE get_collection_First(_, _)
get_collection_First(stickers, collection_name) ==
    IF stickers = <<>> THEN <<>>
    ELSE IF Head(stickers).collection = collection_name THEN <<Head(stickers)>>
    ELSE get_collection_First(Tail(stickers), collection_name)

\* Workspace::get_collection: iter().filter(..).cloned().collect()
RECURSIVE get_collection(_, _)
get_collection(stickers, collection_name) ==
    IF stickers = <<>> THEN <<>>
    ELSE (IF Head(stickers).collection = collection_name
          THEN <<Head(stickers)>> ELSE <<>>)
         \o get_collection(Tail(stickers), collection_name)

\* HashMap::insert
Insert(map, key, value) ==
    [k \in DOMAIN map \cup {key} |-> IF k = key THEN value ELSE map[k]]

WorkspaceInit ==
    /\ kind = "none" /\ reader = "cursor" /\ x = <<>>
    /\ mid = NoResult /\ out = NoResult /\ pc = "idle"
    /\ caller = "none" /\ files = <<>> /\ pos = 0
    /\ written = <<>> /\ errors = <<>> /\ status = "idle"
    /\ self_info \in WorkspaceInfos
    /\ fs \in FileSystems
    /\ modified_collections = <<>>
    /\ sticker_index = 0
    /\ ws_status = "running"

\* one iteration of `for sticker in &self.info.stickers`: the three
\* `continue`s, the `?` of sha256_digest, and the insert
ModifiedCollectionsStep ==
    /\ ws_status = "running"
    /\ sticker_index < Len(self_info.stickers)
    /\ LET sticker == self_info.stickers[sticker_index + 1]
       IN  IF \/ sticker.collection \in DOMAIN modified_collections
              \/ ~fs[sticker.name].exists
              \/ ~fs[sticker.name].openable
           THEN /\ sticker_index' = sticker_index + 1
                /\ UNCHANGED <<modified_collections, ws_status>>
           ELSE IF sha256_digest(fs[sticker.name]).tag = "Err"
           THEN /\ ws_status' = "Err"
                /\ UNCHANGED <<modified_collections, sticker_index>>
           ELSE /\ sticker_index' = sticker_index + 1
                /\ modified_collections' =
                       IF ChecksumDiffers(sticker.checksum_sha256,
                                          sha256_digest(fs[sticker.name]).digest)
                       THEN Insert(modified_collections, sticker.collection,
                                   get_collection(self_info.stickers, sticker.collection))
                       ELSE modified_collections
                /\ UNCHANGED ws_status
    /\ UNCHANGED <<self_info, fs>>
    /\ UNCHANGED convVars
    /\ UNCHANGED batchVars

\* the loop is over: Ok(modified_collections)
ModifiedCollectionsReturn ==
    /\ ws_status = "running"
    /\ sticker_index = Len(self_info.stickers)
    /\ ws_status' = "Ok"
    /\ UNCHANGED <<self_info, fs, modified_collections, sticker_index>>
    /\ UNCHANGED convVars
    /\ UNCHANGED batchVars

WorkspaceNext == ModifiedCollectionsStep \/ ModifiedCollectionsReturn

WorkspaceSpec == WorkspaceInit /\ [][WorkspaceNext]_vars

-----------------------------------------------------------------------------
(* What the claims speak of, read off the input bytes.                     *)

\* the fields of a DDS header at their documented offsets
DdsTag(b) == BytesAt(b, 84, 4)
DdsIsRaw(b) == (I32At(b, 8) % 16) >= 8
DdsHeight(b) == I32At(b, 12)
DdsWidth(b) == I32At(b, 16)
DdsMips(b) == I32At(b, 28)

RegistryTags == {TagDX10, TagDXT1, TagBC4U, TagBC5U, TagBC1S, TagSRGB}

\* the DXGI codes of the supported formats and the TEX code of each
TexCodeOfDxgi ==
    [c \in {28, 29, 49, 71, 72, 80, 83, 95, 98, 99} |->
        CASE c = 28 -> 7  [] c = 29 -> 9  [] c = 49 -> 19 [] c = 71 -> 22
          [] c = 72 -> 23 [] c = 80 -> 24 [] c = 83 -> 26 [] c = 95 -> 28
          [] c = 98 -> 30 [] c = 99 -> 31]

\* where the header of a DDS file ends: after the DX10 extension when its
\* tag is DX10, at 0x80 otherwise
DdsHeaderEnd(b) == IF DdsTag(b) = TagDX10 THEN 148 ELSE 128

\* a well-formed DDS file: whole header, right signature, a registry tag
\* and, under the DX10 tag, the DXGI code of a supported format; a mip count
\* of at least 1 and positive dimensions
WellFormedDds(b) ==
    /\ Len(b) >= 128
    /\ I32At(b, 0) = 542327876
    /\ DdsTag(b) \in RegistryTags
    /\ DdsTag(b) = TagDX10 =>
         Len(b) >= 148 /\ I32At(b, 128) \in DOMAIN TexCodeOfDxgi
    /\ DdsMips(b) >= 1 /\ DdsWidth(b) >= 1 /\ DdsHeight(b) >= 1

\* a well-formed TEX file: one convert_to_tex writes (for a raw or a
\* non-raw DDS) for some format, dimensions and mip count >= 1, followed by
\* any payload
WellFormedTex(b) ==
    /\ Len(b) >= 192
    /\ I32At(b, 0) = 5784916
    /\ I32At(b, 36) \in {7, 9, 19, 22, 23, 24, 26, 28, 30, 31}
    /\ I32At(b, 20) >= 1 /\ I32At(b, 24) >= 1 /\ I32At(b, 28) >= 1
    /\ Len(b) >= 184 + 8 * I32At(b, 20)
    /\ \E raw \in BOOLEAN :
         LET f == TexFromI32(I32At(b, 36))
             head == TexHeaderBytes(I32At(b, 20), I32At(b, 24), I32At(b, 28), f, raw)
                       \o MipTableBytes(MipLevels(I32At(b, 24), I32At(b, 28),
                                                  I32At(b, 20), f, raw))
         IN  SubSeq(b, 1, Len(head)) = head

-----------------------------------------------------------------------------
(* The claims.                                                             *)

\* C1: DDS round trip.  For every well-formed DDS input x (raw or not),
\* convert_to_tex succeeds and convert_to_dds of its result returns exactly
\* the bytes of x.
C1_DdsRoundTrip ==
    (kind = "dds" /\ WellFormedDds(x)) =>
        /\ pc = "converted" => mid.tag = "Ok"
        /\ pc = "back" => out = Ok(x)

\* C2: TEX round trip.  For every well-formed TEX input y (among them the
\* TEX files convert_to_tex produced from a raw DDS), convert_to_dds
\* succeeds and convert_to_tex of its result returns exactly the bytes of y.
C2_TexRoundTrip ==
    (kind = "tex" /\ WellFormedTex(x)) =>
        /\ pc = "converted" => mid.tag = "Ok"
        /\ pc = "back" => out = Ok(x)

\* C3: payload pass-through.  (1) The bytes convert_to_tex writes after the
\* 0xB8-byte header and the mip table are the input's bytes after its DDS
\* header (after the DX10 extension when the input's tag is DX10, after 0x80
\* otherwise).  (2) The bytes convert_to_dds writes after the DDS header and
\* the DX10 extension, if written, are the input's bytes from the offset
\* held at 0xB8 to the end.
C3_PayloadPassThrough ==
    (pc # "input" /\ mid.tag = "Ok") =>
        /\ (kind = "dds" /\ DdsMips(x) >= 0) =>
              ReadToEnd(mid.bytes, 184 + 8 * DdsMips(x))
                = ReadToEnd(x, DdsHeaderEnd(x))
        /\ kind = "tex" =>
              ReadToEnd(mid.bytes,
                        IF BytesAt(mid.bytes, 84, 4) = TagDX10 THEN 148 ELSE 128)
                = (IF I32At(x, 188) = 0 /\ I32At(x, 184) >= 0
                   THEN ReadToEnd(x, I32At(x, 184)) ELSE <<>>)

\* C4: magic validation.  An input of at least 4 bytes whose first 4 bytes
\* are not the expected signature makes convert_to_dds fail with
\* BadMagic(0x00584554, actual) and convert_to_tex with
\* BadMagic(0x20534444, actual), actual being the little-endian i32 read,
\* whatever follows the 4 bytes.
C4_MagicValidation ==
    (pc # "input" /\ Len(x) >= 4) =>
        /\ (kind = "dds" /\ I32At(x, 0) # 542327876) =>
              mid = [tag |-> "BadMagic", bytes |-> <<>>,
                     expected |-> 542327876, actual |-> I32Of(SubSeq(x, 1, 4))]
        /\ (kind = "tex" /\ I32At(x, 0) # 5784916) =>
              /\ mid = [tag |-> "BadMagic", bytes |-> <<>>,
                        expected |-> 5784916, actual |-> I32Of(SubSeq(x, 1, 4))]
              /\ from_reader(x) = mid

\* C4 witness: a TEX input with signature bytes FF FF FF FF and a format code
\* outside the registry was rejected for its signature
C4_Witness ==
    /\ kind = "tex" /\ pc = "converted"
    /\ Len(x) >= 192
    /\ SubSeq(x, 1, 4) = <<255, 255, 255, 255>>
    /\ I32At(x, 36) = 999
    /\ mid.tag = "BadMagic" /\ mid.actual = -1 /\ mid.expected = 5784916

C6_UnknownFormatRejected ==
    pc # "input" =>
        /\ (kind = "tex" /\ Len(x) >= 40 /\ I32At(x, 0) = 5784916
              /\ I32At(x, 36) \notin {7, 9, 19, 22, 23, 24, 26, 28, 30, 31}) =>
              mid.tag = "UnknownTexFormat" /\ mid.bytes = <<>>
        /\ (kind = "dds" /\ Len(x) >= 88 /\ I32At(x, 0) = 542327876
              /\ DdsTag(x) \notin RegistryTags) =>
              mid.tag = "UnknownTexFormat" /\ mid.bytes = <<>>
        /\ (kind = "dds" /\ Len(x) >= 132 /\ I32At(x, 0) = 542327876
              /\ DdsTag(x) = TagDX10 /\ I32At(x, 128) \notin DOMAIN TexCodeOfDxgi) =>
              mid.tag = "UnknownTexFormat" /\ mid.bytes = <<>>

\* C6 witness: a whole TEX file with format code 999 was rejected
C6_Witness ==
    /\ kind = "tex" /\ pc = "converted"
    /\ Len(x) > 192 /\ I32At(x, 0) = 5784916 /\ I32At(x, 36) = 999
    /\ mid.tag = "UnknownTexFormat"

\* the dimension of mip level i (0-based) for a surface dimension d: halved
\* and clamped to 2 (raw) or 4 after each level
RECURSIVE LevelDim(_, _, _)
LevelDim(d, i, raw) ==
    IF i = 0 THEN d
    ELSE LET half == LevelDim(d, i - 1, raw) \div 2
             floor == IF raw THEN 2 ELSE 4
         IN  IF half < floor THEN floor ELSE half

\* the byte size of a level of w x h pixels, by TEX format code
ByteSize(code, raw, w, h) ==
    IF code \in {22, 23, 24} THEN (w * h) \div 2
    ELSE IF code = 19 THEN w * h * 2
    ELSE IF raw THEN w * h * 4
    ELSE w * h

\* entry i (0-based) of the mip table of a TEX file: the base offset
TableBase(t, i) == I32At(t, 184 + 8 * i)

C8_StrictlyIncreasing ==
    (kind = "dds" /\ pc # "input" /\ mid.tag = "Ok"
       /\ DdsMips(x) >= 2 /\ DdsWidth(x) >= 1 /\ DdsHeight(x) >= 1) =>
        \A i \in 0..(DdsMips(x) - 2) :
            TableBase(mid.bytes, i) < TableBase(mid.bytes, i + 1)

\* the mip loop's dimensions for a DDS input whose conversion succeeded
LoopLevels(b) ==
    MipLevels(DdsWidth(b), DdsHeight(b), DdsMips(b), ResolveDdsFormat(b), DdsIsRaw(b))

\* C9: floor clamp.  In the mip loop of convert_to_tex the width and height
\* of each level after the first are the previous ones halved (integer
\* division) and clamped to at least 4 (non-raw) or 2 (raw), hence never 1
\* or 0; an 8 x 8 non-raw surface uses 8, 4, 4, 4.  (The levels are those
\* the written table was computed from.)
C9_FloorClamp ==
    (kind = "dds" /\ pc # "input" /\ mid.tag = "Ok"
       /\ DdsMips(x) >= 1 /\ DdsWidth(x) >= 1 /\ DdsHeight(x) >= 1) =>
        LET lv == LoopLevels(x)
            floor == IF DdsIsRaw(x) THEN 2 ELSE 4
            Clamp(v) == IF v \div 2 < floor THEN floor ELSE v \div 2
        IN  /\ Len(lv) = DdsMips(x)
            /\ BytesAt(mid.bytes, 184, 8 * DdsMips(x)) = MipTableBytes(lv)
            /\ lv[1].width = DdsWidth(x) /\ lv[1].height = DdsHeight(x)
            /\ \A i \in 2..Len(lv) :
                 /\ lv[i].width = Clamp(lv[i - 1].width)
                 /\ lv[i].height = Clamp(lv[i - 1].height)
                 /\ lv[i].width >= floor /\ lv[i].height >= floor
            /\ (DdsWidth(x) = 8 /\ DdsHeight(x) = 8 /\ ~DdsIsRaw(x)
                  /\ DdsMips(x) = 4) =>
                 [i \in 1..4 |-> <<lv[i].width, lv[i].height>>]
                   = <<(<<8, 8>>), (<<4, 4>>), (<<4, 4>>), (<<4, 4>>)>>

\* C9 witness: an 8 x 8 non-raw surface with 4 mips was converted, its
\* 8-bit-per-pixel table reading 64, 16, 16 bytes for the first three levels
C9_Witness ==
    /\ kind = "dds" /\ pc = "converted" /\ mid.tag = "Ok"
    /\ DdsWidth(x) = 8 /\ DdsHeight(x) = 8 /\ DdsMips(x) = 4 /\ ~DdsIsRaw(x)
    /\ I32At(mid.bytes, 36) = 30
    /\ <<TableBase(mid.bytes, 0), TableBase(mid.bytes, 1), TableBase(mid.bytes, 2),
         TableBase(mid.bytes, 3)>> = <<216, 280, 296, 312>>

\* the TEX codes of the formats whose DDS tag is DX10, with their DXGI codes
Dx10CodeOfTex ==
    [c \in {7, 9, 19, 23, 28, 30, 31} |->
        CASE c = 7 -> 28 [] c = 9 -> 29 [] c = 19 -> 49 [] c = 23 -> 72
          [] c = 28 -> 95 [] c = 30 -> 98 [] c = 31 -> 99]

\* C10: DX10 extension presence.  The output of convert_to_dds holds the
\* 20-byte DX10 extension (the DXGI code of the format at 0x80, then the 16
\* fixed bytes) exactly when the DDS tag of the format is DX10; the payload
\* starts at 0x94 then and at 0x80 otherwise, and the tag sits at 0x54.
C10_Dx10ExtensionPresence ==
    (kind = "tex" /\ pc # "input" /\ mid.tag = "Ok") =>
        LET code == I32At(x, 36)
            d == mid.bytes
            data == IF I32At(x, 188) = 0 /\ I32At(x, 184) >= 0
                    THEN ReadToEnd(x, I32At(x, 184)) ELSE <<>>
            tag == CASE code = 22 -> <<68, 88, 84, 49>>
                     [] code = 24 -> <<66, 67, 52, 85>>
                     [] code = 26 -> <<66, 67, 53, 85>>
                     [] OTHER     -> <<68, 88, 49, 48>>
        IN  /\ Len(d) >= 128
            /\ BytesAt(d, 84, 4) = tag
            /\ IF code \in DOMAIN Dx10CodeOfTex
               THEN /\ Len(d) = 148 + Len(data)
                    /\ I32At(d, 128) = Dx10CodeOfTex[code]
                    /\ BytesAt(d, 132, 16)
                         = <<3, 0, 0, 0, 0, 0, 0, 0, 1, 0, 0, 0, 0, 0, 0, 0>>
                    /\ ReadToEnd(d, 148) = data
               ELSE /\ Len(d) = 128 + Len(data)
                    /\ ReadToEnd(d, 128) = data

\* C10 witness: a TEX of format R8G8B8A8-unorm (code 7, not one of the
\* BC6H/BC7 formats) with a payload became a DDS with the DX10 extension
C10_Witness ==
    /\ kind = "tex" /\ pc = "converted" /\ mid.tag = "Ok"
    /\ I32At(x, 36) = 7 /\ I32At(x, 184) < Len(x) /\ I32At(x, 188) = 0
    /\ BytesAt(mid.bytes, 84, 4) = TagDX10
    /\ I32At(mid.bytes, 128) = 28
    /\ Len(mid.bytes) > 148

\* where the header of the DDS input ends, as far as the input lets one tell:
\* 0x94 when the tag at 0x54 can be read and is DX10, 0x80 otherwise
DdsHeaderLength(b) == IF Len(b) >= 88 /\ DdsTag(b) = TagDX10 THEN 148 ELSE 128

\* where the header of the TEX input ends: 0xB8 + 8 * mip_count, the mip
\* count read at 0x14 (0xB8 when the input ends before that field)
TexHeaderLength(b) ==
    IF Len(b) >= 24 /\ I32At(b, 20) >= 0 THEN 184 + 8 * I32At(b, 20) ELSE 184

\* C11: truncated input is fatal and there is no partial success.  A DDS
\* input shorter than 0x80 bytes (0x94 when its tag is DX10) makes
\* convert_to_tex fail, a TEX input shorter than 0xB8 + 8 * mip_count bytes
\* makes convert_to_dds fail, and a failed conversion carries no output bytes.
C11_TruncatedInputFatal ==
    pc # "input" =>
        /\ (kind = "dds" /\ Len(x) < DdsHeaderLength(x)) => mid.tag # "Ok"
        /\ (kind = "tex" /\ Len(x) < TexHeaderLength(x)) => mid.tag # "Ok"
        /\ mid.tag # "Ok" => mid.bytes = <<>>
        /\ (pc = "back" /\ out.tag # "Ok") => out.bytes = <<>>

\* C12: one DDS tag per format.  For every tag t other than DX10 that
\* from_magic resolves to a supported format, magic(from_magic(t)) = t; for
\* every supported format f with magic(f) other than DX10,
\* from_magic(magic(f)) = f.  Checked on the tag convert_to_tex read from the
\* DDS input and on the format convert_to_dds read from the TEX input.
C12_TagMappingInjective ==
    pc # "input" =>
        /\ (kind = "dds" /\ mid.tag = "Ok" /\ DdsTag(x) # TagDX10
              /\ from_magic(DdsTag(x)) \in SupportedFormats) =>
              magic(from_magic(DdsTag(x))) = DdsTag(x)
        /\ (kind = "tex" /\ mid.tag = "Ok"
              /\ TexFromI32(I32At(x, 36)) \in SupportedFormats
              /\ magic(TexFromI32(I32At(x, 36))) # TagDX10) =>
              from_magic(magic(TexFromI32(I32At(x, 36)))) = TexFromI32(I32At(x, 36))

\* C13: every TexInfo that from_reader returns successfully has the TEX
\* signature, mip_map_count >= 1, width > 0 and height > 0.
C13_TexInfoInvariant ==
    (kind = "tex" /\ pc # "input" /\ from_reader(x).tag = "Ok") =>
        /\ from_reader(x).magic = 5784916
        /\ from_reader(x).mip_map_count >= 1
        /\ from_reader(x).width > 0
        /\ from_reader(x).height > 0

\* what a caller's loop does with one file
CallerConversion(c, f) ==
    IF c = "package_modified_stickers" THEN StickerToTex(f)
    ELSE load_tex_image(f, ReaderOf(c))

\* C14: batch failure isolation.  When package_modified_stickers,
\* Workspace::extract_stickers or main of extract-stickers has gone through
\* its files, every file whose conversion succeeds has been written, also
\* those after a file whose conversion fails, and every file whose
\* conversion fails has its own reported failure.
C14_BatchFailureIsolation ==
    (caller # "none" /\ status # "running") =>
        \A i \in 1..Len(files) :
            IF CallerConversion(caller, files[i]).tag = "Ok"
            THEN \E k \in 1..Len(written) : written[k].file = i
            ELSE \E k \in 1..Len(errors) : errors[k].file = i

\* C20: convert_png_sticker_to_tex rejects with the size error every picture
\* that is not exactly 128 wide and 512 high, and only pictures of exactly
\* 128 x 512 reach the conversion to TEX (and are written).
C20_PngSizeRejected ==
    caller = "package_modified_stickers" =>
        \A i \in 1..pos :
            files[i].ext = "png" =>
                /\ (files[i].width # 128 \/ files[i].height # 512) =>
                      \E k \in 1..Len(errors) :
                          errors[k] = [file |-> i, error |-> "SizeError"]
                /\ (\E k \in 1..Len(written) : written[k].file = i) =>
                      (files[i].width = 128 /\ files[i].height = 512)

\* C15: termination and bounded work.  Every call of convert_to_tex and
\* convert_to_dds ends with Ok or Err, and its work is bounded by the input:
\* the iterations of the mip loop and the length of the output exceed the
\* length of the input by no more than a fixed constant (here 0xB8 + 8 * 15,
\* a TEX header with the table of the longest mip chain a 16384 texture has,
\* for convert_to_tex, and 0x94, a DDS header with its extension, for
\* convert_to_dds), whatever the mip count at 0x1C.
C15_BoundedWork ==
    pc # "input" =>
        /\ mid.tag \in {"Ok", "IO", "BadMagic", "UnknownTexFormat"}
        /\ (kind = "dds" /\ mid.tag = "Ok") =>
              /\ Len(LoopLevels(x)) <= Len(x) + 304
              /\ Len(mid.bytes) <= Len(x) + 304
        /\ (kind = "tex" /\ mid.tag = "Ok") => Len(mid.bytes) <= Len(x) + 148

\* C16: the TEX writer agrees with the TEX parser.  In every output of
\* convert_to_tex the 64-bit value at 0xB8 is 0xB8 + 8 * mip_count (low
\* word, high word 0), that is the offset at which the payload starts in
\* the output, so that from_reader on the output returns the offset of the
\* first payload byte; for every mip count, 0 and negative ones included.
C16_FirstMipEntry ==
    (kind = "dds" /\ pc # "input" /\ mid.tag = "Ok") =>
        LET t == mid.bytes
            data == ReadToEnd(x, DdsPayloadOffset(ResolveDdsFormat(x), DdsIsRaw(x)))
        IN  /\ Len(t) >= 192
            /\ I32At(t, 184) = 184 + 8 * DdsMips(x)
            /\ I32At(t, 188) = 0
            /\ from_reader(t).tag = "Ok"
            /\ ~from_reader(t).offset.far
            /\ from_reader(t).offset.pos = Len(t) - Len(data)
            /\ ReadToEnd(t, from_reader(t).offset.pos) = data

\* C17: header metadata survives TEX -> DDS -> TEX.  For every TEX input y
\* that convert_to_dds accepts, convert_to_tex of the DDS succeeds and
\* from_reader of its output yields the width, height, mip count and format
\* from_reader yields for y; the DDS carries width and height unswapped and
\* is read back as non-raw.  (A way back that ends in an overflow panic is
\* left aside.)
C17_MetadataRoundTrip ==
    (kind = "tex" /\ pc = "back" /\ out.tag # "Panic") =>
        /\ ~DdsIsRaw(mid.bytes)
        /\ DdsWidth(mid.bytes) = from_reader(x).width
        /\ DdsHeight(mid.bytes) = from_reader(x).height
        /\ out.tag = "Ok"
        /\ from_reader(out.bytes).tag = "Ok"
        /\ from_reader(out.bytes).width = from_reader(x).width
        /\ from_reader(out.bytes).height = from_reader(x).height
        /\ from_reader(out.bytes).mip_map_count = from_reader(x).mip_map_count
        /\ from_reader(out.bytes).format = from_reader(x).format

\* the i16 whose little-endian bytes are s[1..2]
I16Of(s) == s[1] + 256 * (IF s[2] >= 128 THEN s[2] - 256 ELSE s[2])

\* C18: no overflow for realistic textures.  For width and height in
\* 1..16384, mip_count in 1..15, every supported format, raw or not,
\* convert_to_tex never overflows i32 (a build with overflow checks does
\* not panic, and the base offsets written are the exact sums of the level
\* sizes, all positive), and the 16-bit fields of the three groups hold
\* width (width / 2 when not raw and not R8G8) and width exactly.
C18_NoOverflowRealistic ==
    (kind = "dds" /\ pc # "input" /\ convert_to_tex(x).tag = "Ok"
       /\ DdsWidth(x) \in 1..16384 /\ DdsHeight(x) \in 1..16384
       /\ DdsMips(x) \in 1..15) =>
        LET n == DdsMips(x)
            t == mid.bytes
            code == I32At(t, 36)
            raw == DdsIsRaw(x)
        IN  /\ mid.tag = "Ok"
            /\ \A i \in 0..(n - 1) : TableBase(t, i) > 0
            /\ \A i \in 0..(n - 2) :
                 TableBase(t, i + 1)
                   = TableBase(t, i) + ByteSize(code, raw, LevelDim(DdsWidth(x), i, raw),
                                                LevelDim(DdsHeight(x), i, raw))
            /\ \A k \in 0..2 :
                 /\ I16Of(BytesAt(t, 124 + 12 * k, 2))
                      = (IF raw \/ code = 19 THEN DdsWidth(x) ELSE DdsWidth(x) \div 2)
                 /\ I16Of(BytesAt(t, 126 + 12 * k, 2)) = DdsWidth(x)

\* C18 witness: a raw 16384 x 16384 R8G8B8A8 surface with 15 mips was
\* converted, its last base offset 304 plus the sizes of the 14 levels before
C18_Witness ==
    /\ kind = "dds" /\ pc = "converted" /\ mid.tag = "Ok"
    /\ DdsWidth(x) = 16384 /\ DdsHeight(x) = 16384 /\ DdsMips(x) = 15
    /\ DdsIsRaw(x) /\ I32At(mid.bytes, 36) = 7
    /\ TableBase(mid.bytes, 14) = 1431656064
    /\ BytesAt(mid.bytes, 124, 4) = <<0, 64, 0, 64>>

\* C19: the mip chain gets smaller.  For width, height >= 1, raw or not, the
\* width and height the mip loop uses for a level are never larger than
\* those of the level before, and the byte sizes of the levels (the
\* differences of the base offsets written) never increase.
C19_MipChainNonIncreasing ==
    (kind = "dds" /\ pc # "input" /\ mid.tag = "Ok"
       /\ DdsMips(x) >= 1 /\ DdsWidth(x) >= 1 /\ DdsHeight(x) >= 1) =>
        LET lv == LoopLevels(x)
            t == mid.bytes
        IN  /\ \A i \in 1..(Len(lv) - 1) :
                 /\ lv[i + 1].width <= lv[i].width
                 /\ lv[i + 1].height <= lv[i].height
            /\ \A i \in 0..(DdsMips(x) - 3) :
                 TableBase(t, i + 2) - TableBase(t, i + 1)
                   <= TableBase(t, i + 1) - TableBase(t, i)


\* the stickers recorded for collection c, in recorded order
RecordedFor(c) == SelectSeq(self_info.stickers, LAMBDA s : s.collection = c)

\* the file of sticker s exists, opens, and its SHA-256 is not the recorded
\* checksum
StickerChanged(s) ==
    /\ fs[s.name].exists /\ fs[s.name].openable /\ fs[s.name].readable
    /\ Sha256(fs[s.name].data) # s.checksum_sha256

\* collection c has a changed sticker
CollectionChanged(c) ==
    \E i \in 1..Len(self_info.stickers) :
        /\ self_info.stickers[i].collection = c
        /\ StickerChanged(self_info.stickers[i])

\* the map of get_modified_collections: every collection in it has a changed
\* sticker and maps to all its recorded stickers in recorded order, and the
\* map a successful call returns holds every collection with a changed sticker
ModifiedCollectionsMap ==
    /\ \A c \in DOMAIN modified_collections :
           /\ CollectionChanged(c)
           /\ modified_collections[c] = RecordedFor(c)
    /\ ws_status = "Ok" =>
           \A c \in {"a", "b"} :
               CollectionChanged(c) => c \in DOMAIN modified_collections

\* C21: the map Workspace::get_modified_collections returns contains
\* collection c if and only if at least one sticker recorded for c has an
\* existing, openable file whose SHA-256 differs from the recorded checksum;
\* the value for c is the list of all stickers recorded for c, changed or
\* not, in recorded order; a sticker whose file is missing never marks a
\* collection as modified; and the workspace info is left unchanged.  (A
\* call that meets a file that opens and cannot be read returns the error of
\* the read and no map.)
C21_ModifiedCollections ==
    /\ []ModifiedCollectionsMap
    /\ [][self_info' = self_info]_vars

\* C21 witness: a returned map holds collection a with two stickers, the
\* first unchanged and the second changed, while a sticker of collection b
\* with a missing file is not in it
C21_Witness ==
    /\ ws_status = "Ok"
    /\ Len(self_info.stickers) >= 2
    /\ self_info.stickers[1].collection = "a"
    /\ self_info.stickers[2].collection = "a"
    /\ ~StickerChanged(self_info.stickers[1])
    /\ StickerChanged(self_info.stickers[2])
    /\ DOMAIN modified_collections = {"a"}
    /\ Len(modified_collections["a"]) = 2
    /\ modified_collections["a"][1] = self_info.stickers[1]
    /\ ~fs["b_0.png"].exists

=============================================================================
